---------------------------- MODULE Spec2Model ----------------------------
(***************************************************************************)
(* Model of the resumable harvesting pipeline of BenYehudaData:            *)
(* BenYehudaAPI.scrape_all_works (src/scraper/benyehuda_scraper.py) with   *)
(* the generator get_all_works, process_works_batch, get_texts_batch,      *)
(* save_work and the progress.json checkpoint file, over several           *)
(* successive runs of the scraper in the same output directory (Spec);     *)
(* the constructors and request methods of the two client classes called   *)
(* directly (SpecClient); and BenYehudaAuthorScraper.scrape_all_authors    *)
(* (src/scraper/author_scraper.py) over the work files (SpecAuthors).      *)
(* Each specification leaves the variables of the other two as they are.   *)
(*                                                                         *)
(* A work (summary or full record) is represented by its 'id'; 0 stands    *)
(* for a record whose 'id' is missing or falsy (work.get('id') is falsy).  *)
(***************************************************************************)
EXTENDS Naturals, Integers, Sequences, FiniteSets, TLC

(***************************************************************************)
(* Program constant.                                                       *)
(***************************************************************************)
\* BenYehudaAPI.BATCH_SIZE
BATCH_SIZE == 20

(***************************************************************************)
(* Bounds of the model.                                                    *)
(***************************************************************************)
\* number of successive invocations of scrape_all_works
MaxRuns == 2
\* number of environment faults (failed or interrupted calls) over all runs
MaxFaults == 1
\* number of works of the large catalogue (two full batches and a tail)
NBig == 42
\* number of direct calls of a request method on a constructed client
MaxCalls == 2
\* number of authors of the large set of work files
NAuth == 11

\* scrape_all_authors rewrites its progress file when the size of
\* scraped_ids is a multiple of 10
AuthorFlushEvery == 10

(***************************************************************************)
(* The upstream service: the catalogue served by the search endpoint as a  *)
(* sequence of pages, and the set of ids the batch endpoint has no record  *)
(* for.  Both stay the same over the runs (an unchanged upstream).         *)
(***************************************************************************)
Range(s) == {s[i] : i \in 1..Len(s)}

PageOf(lo, hi, nxt) ==
    [data |-> [i \in 1..(hi - lo + 1) |-> lo + i - 1], next |-> nxt]

\* two pages of three summaries each, ids 1..6
CatE2E == << PageOf(1, 3, TRUE), PageOf(4, 6, FALSE) >>

\* NBig summaries on three pages; the buffers of BATCH_SIZE fill inside the
\* second and the third page and the rest is left to the tail pass
CatBig ==
    << PageOf(1, NBig \div 3, TRUE),
       PageOf(NBig \div 3 + 1, 2 * (NBig \div 3), TRUE),
       PageOf(2 * (NBig \div 3) + 1, NBig, FALSE) >>

\* a summary without id, an id listed on two pages, and a stream that ends
\* with a page of empty data
CatOdd ==
    << [data |-> << 1, 0, 2 >>, next |-> TRUE],
       [data |-> << 2, 3 >>, next |-> TRUE],
       [data |-> << >>, next |-> TRUE] >>

Catalogues == {CatE2E, CatBig, CatOdd}

MissingSets == { {}, {4}, {4, NBig - 1} }

Ids == 1..(NBig + 1)

CatalogueIds(cat) == UNION { Range(cat[p].data) : p \in 1..Len(cat) } \ {0}

VARIABLES
    catalogue,      \* pages served by POST /search
    missing,        \* ids POST /texts/batch returns no record for
    files,          \* works_dir: state of work_<id>.json for each id
    progress,       \* progress.json: [st, ids]
    pc,             \* position in scrape_all_works
    run,            \* number of the current invocation
    outcome,        \* how the current invocation ended
    faults,         \* faults injected so far
    interrupted,    \* KeyboardInterrupt was caught in this run (line 240)
    scraped_ids,    \* local list scraped_ids
    works_buffer,   \* local list works_buffer
    ids_to_fetch,   \* local list ids_to_fetch
    full_works,     \* records of the batch response still to be saved
    phase,          \* "main": loop of line 192, "tail": lines 226-238
    search_after,   \* get_all_works: cursor (0 is None, i is "after page i")
    pageData,       \* get_all_works: works of results['data'] not yet yielded
    next_cursor,    \* get_all_works: results.get('next_page_search_after')
    requests,       \* history: id lists sent to get_texts_batch in this run
    searches,       \* history: cursors sent by get_all_works in this run
    events,         \* history: faults of this run
    atPageFail,     \* history: calls made when a page fetch failed in this run
    failedIds,      \* history: ids of the get_texts_batch calls that failed in this run
    progAtStart,    \* history: ids progress.json held when this run started
    flushed,        \* history: the final flush of this run was executed
    prev,           \* history: how the previous run ended
    sinceFlush,     \* history: ids appended to scraped_ids since progress.json was last written
    yielded,        \* history: works yielded by get_all_works in this run
    skipped,        \* history: ids of processed buffers found in scraped_ids
    slept,          \* history: time.sleep(0.5) ran since the last get_texts_batch call
    tailCalls,      \* history: get_texts_batch calls of the tail block (line 231) in this run
    cls,            \* client: the class that is constructed
    argKey,         \* client: the api_key argument of __init__
    envKey,         \* client: BENYEHUDA_API_KEY in os.environ
    dotenvKey,      \* client: BENYEHUDA_API_KEY in the .env file
    api_key,        \* client: self.api_key
    built,          \* client: "no", "yes" or the exception __init__ raised
    outDir,         \* client: the works / authors directory exists
    wire,           \* client: requests sent to the upstream service
    calls,          \* client: history of the direct calls of get_texts_batch and get_author
    author_files,   \* authors_dir: state of author_<id>.json for each id
    authors_progress, \* authors_progress.json: [st, ids]
    apc,            \* position in scrape_all_authors
    scraped_authors, \* scrape_all_authors: local set scraped_ids
    author_ids,     \* scrape_all_authors: ids the loop of line 132 has still to go through
    author_data,    \* scrape_all_authors: 'id' of the record get_author returned
    aFaults,        \* scrape_all_authors: faults injected so far
    aLog            \* history: get_author calls and sleeps of scrape_all_authors, in order

env  == << catalogue, missing >>
disk == << files, progress >>
gen  == << search_after, pageData, next_cursor >>
loc  == << scraped_ids, works_buffer, ids_to_fetch, full_works, phase >>
hist == << requests, searches, events, atPageFail, failedIds, progAtStart, flushed, prev >>
obs  == << sinceFlush, yielded, skipped, slept, tailCalls >>
ctl  == << pc, run, outcome, faults, interrupted >>
scraper == << env, disk, gen, loc, hist, obs, ctl >>
client == << cls, argKey, envKey, dotenvKey, api_key, built, outDir, wire, calls >>
authors == << author_files, authors_progress, apc, scraped_authors, author_ids,
             author_data, aFaults, aLog >>
vars == << scraper, client, authors >>

(***************************************************************************)
(* Files.                                                                  *)
(***************************************************************************)
\* ids readable from progress.json (json.load fails on a truncated file)
ProgressIds(p) == IF p.st = "ok" THEN Range(p.ids) ELSE {}

NoProgress == [st |-> "absent", ids |-> << >>]

Persisted == {i \in Ids : files[i] = "complete"}

NoPageFail == [reqs |-> -1, searches |-> -1]

NoPrev == [outcome |-> "none", events |-> {}, chk |-> {}, persisted |-> {},
           failed |-> {}]

(***************************************************************************)
(* process_works_batch: the ids of the buffer that are truthy and not in   *)
(* scraped_ids, in buffer order.                                           *)
(***************************************************************************)
\* variant: the buffer is not filtered against scraped_ids
process_works_batch_NoDedup(works, scraped) ==
    SelectSeq(works, LAMBDA id : id # 0)

process_works_batch(works, scraped) ==
    SelectSeq(works, LAMBDA id : id # 0 /\ id \notin Range(scraped))

(***************************************************************************)
(* The batch endpoint: records of the requested ids it has, in request     *)
(* order; a response may also carry a record that was not asked for.       *)
(***************************************************************************)
BatchResponse(ids) == SelectSeq(ids, LAMBDA id : id \notin missing)

\* ids of records the batch endpoint may return without being asked for
\* them: a work outside the catalogue
ExtraIds == {NBig + 1}

(***************************************************************************)
(* The search endpoint: the page after cursor c.                           *)
(***************************************************************************)
SearchResponse(c) ==
    IF c + 1 \in 1..Len(catalogue)
    THEN [data |-> catalogue[c + 1].data,
          next |-> IF catalogue[c + 1].next THEN c + 1 ELSE 0]
    ELSE [data |-> << >>, next |-> 0]

(***************************************************************************)
(* Where the loop of line 192 goes on after its body: get_all_works        *)
(* resumes after the yield; with the page exhausted it runs lines 121-123. *)
(***************************************************************************)
\* variant: a page without next_page_search_after does not end the loop
ResumePc_NoBreak(pd, nxt) == IF pd # << >> THEN "yield" ELSE "search"

ResumePc(pd, nxt) ==
    IF pd # << >> THEN "yield" ELSE IF nxt = 0 THEN "tail" ELSE "search"

\* variant: the cursor is not advanced
ResumeCursor_Stale(pd, nxt, cur) == cur

ResumeCursor(pd, nxt, cur) == IF pd # << >> THEN cur ELSE nxt

(***************************************************************************)
(* Line 196: the buffer is processed when it holds BATCH_SIZE works.       *)
(***************************************************************************)
\* variant: the comparison is strict
BufferFull_Strict(buf) == Len(buf) > BATCH_SIZE

BufferFull(buf) == Len(buf) >= BATCH_SIZE

(***************************************************************************)
(* Lines 200 and 229: 'if ids_to_fetch:', the batch endpoint is called     *)
(* only with a non-empty list.                                             *)
(***************************************************************************)
NeedsFetch(ids) == ids # << >>

(***************************************************************************)
(* Lines 180-186: the list loaded from progress.json; when the file does   *)
(* not exist or cannot be decoded scraped_ids stays the empty list.        *)
(***************************************************************************)
\* variant: the progress file is never read
LoadedIds_Ignored(p) == << >>

LoadedIds(p) == IF p.st = "ok" THEN p.ids ELSE << >>

(***************************************************************************)
(* Lines 128-130: an exception of search_texts is logged and 'break' ends  *)
(* the generator, so the loop of line 192 ends and the tail pass follows.  *)
(***************************************************************************)
\* variant: the handler does not break and the loop searches again
AfterPageError_Retry == "search"

AfterPageError == "tail"

(***************************************************************************)
(* Lines 217-224 and 237-238: an exception of get_texts_batch is logged;   *)
(* the main loop goes on with the next work, the tail pass is over.        *)
(***************************************************************************)
\* variant: a failed batch ends the loop
BatchErrorPc_Fatal(ph, pd, nxt) == "flush"

BatchErrorPc(ph, pd, nxt) == IF ph = "main" THEN ResumePc(pd, nxt) ELSE "flush"

(***************************************************************************)
(* Lines 217-218 and 237-238: the handler of a failed batch logs the error *)
(* and does nothing to scraped_ids.                                        *)
(***************************************************************************)
\* variant: the handler marks the ids of the failed batch
ScrapedAfterBatchError_Marked(scraped, ids) == scraped \o ids

ScrapedAfterBatchError(scraped, ids) == scraped

CanFault == faults < MaxFaults

Fault(kind) ==
    /\ CanFault
    /\ faults' = faults + 1
    /\ events' = events \cup {kind}

NoFault ==
    /\ faults' = faults
    /\ events' = events

\* the scraper before scrape_all_works is called, for a given upstream and
\* a given content of the output directory
WorksStart(cat, miss, fs, prog) ==
    /\ catalogue = cat
    /\ missing = miss
    /\ files = fs
    /\ progress = prog
    /\ pc = "start"
    /\ run = 1
    /\ outcome = "running"
    /\ faults = 0
    /\ interrupted = FALSE
    /\ scraped_ids = << >>
    /\ works_buffer = << >>
    /\ ids_to_fetch = << >>
    /\ full_works = << >>
    /\ phase = "main"
    /\ search_after = 0
    /\ pageData = << >>
    /\ next_cursor = 0
    /\ requests = << >>
    /\ searches = << >>
    /\ events = {}
    /\ atPageFail = NoPageFail
    /\ failedIds = {}
    /\ progAtStart = {}
    /\ flushed = FALSE
    /\ prev = NoPrev
    /\ sinceFlush = 0
    /\ yielded = << >>
    /\ skipped = {}
    /\ slept = FALSE
    /\ tailCalls = 0

\* a constructed client of class c (main(): scraper = BenYehudaAPI()) on
\* which no request method is called directly
ClientBuilt(c) ==
    /\ cls = c
    /\ argKey = "key" /\ envKey = "none" /\ dotenvKey = "none"
    /\ api_key = "key"
    /\ built = "yes"
    /\ outDir = TRUE
    /\ wire = << >>
    /\ calls = << >>

\* ids of authors
AuthorIds == 1..(NAuth + 1)

\* scrape_all_authors is not running
AuthorsIdle ==
    /\ author_files = [a \in AuthorIds |-> "absent"]
    /\ authors_progress = [st |-> "absent", ids |-> {}]
    /\ apc = "idle"
    /\ scraped_authors = {}
    /\ author_ids = << >>
    /\ author_data = 0
    /\ aFaults = 0
    /\ aLog = << >>

NoWorkFiles == [i \in Ids |-> "absent"]

Init ==
    /\ \E cat \in Catalogues, miss \in MissingSets : WorksStart(cat, miss, NoWorkFiles, NoProgress)
    /\ ClientBuilt("BenYehudaAPI")
    /\ AuthorsIdle

(***************************************************************************)
(* Line 172: get_total_works_count, outside the try block.  A failure of   *)
(* search_texts propagates out of scrape_all_works.                        *)
(***************************************************************************)
GetTotalWorksCount ==
    /\ pc = "start"
    /\ \/ /\ NoFault
          /\ pc' = "load"
          /\ outcome' = outcome
       \/ /\ Fault("count_fail")
          /\ pc' = "done"
          /\ outcome' = "error"
    /\ UNCHANGED << env, disk, gen, loc, run, interrupted >>
    /\ UNCHANGED << requests, searches, atPageFail, failedIds, progAtStart, flushed, prev >>
    /\ UNCHANGED obs
    /\ UNCHANGED << client, authors >>

(***************************************************************************)
(* Lines 176-190: load progress.json if it exists; a failed load is logged *)
(* and leaves scraped_ids empty.                                           *)
(***************************************************************************)
LoadProgress ==
    /\ pc = "load"
    /\ scraped_ids' = LoadedIds(progress)
    /\ events' = IF progress.st = "corrupt" THEN events \cup {"load_fail"}
                 ELSE events
    /\ progAtStart' = ProgressIds(progress)
    /\ works_buffer' = << >>
    /\ search_after' = 0
    /\ pc' = "search"
    /\ UNCHANGED << env, disk, pageData, next_cursor, ids_to_fetch, full_works,
                    phase, run, outcome, faults, interrupted >>
    /\ UNCHANGED << requests, searches, atPageFail, failedIds, flushed, prev >>
    /\ UNCHANGED obs
    /\ UNCHANGED << client, authors >>

(***************************************************************************)
(* get_all_works lines 111-116 and 128-130: one search_texts call.  An     *)
(* exception is logged and ends the generator, as empty data does.         *)
(***************************************************************************)
SearchPage ==
    /\ pc = "search"
    /\ searches' = Append(searches, search_after)
    /\ \/ /\ NoFault
          /\ LET results == SearchResponse(search_after) IN
             IF results.data = << >>
             THEN /\ pc' = "tail"
                  /\ UNCHANGED << pageData, next_cursor >>
             ELSE /\ pc' = "yield"
                  /\ pageData' = results.data
                  /\ next_cursor' = results.next
          /\ atPageFail' = atPageFail
       \/ /\ Fault("page_fail")
          /\ pc' = AfterPageError
          /\ atPageFail' = [reqs |-> Len(requests), searches |-> Len(searches')]
          /\ UNCHANGED << pageData, next_cursor >>
    /\ UNCHANGED << env, disk, search_after, loc, run, outcome, interrupted >>
    /\ UNCHANGED << requests, failedIds, progAtStart, flushed, prev >>
    /\ UNCHANGED obs
    /\ UNCHANGED << client, authors >>

(***************************************************************************)
(* Lines 118-123 and 192-200, 220-224: the generator yields one work, the  *)
(* loop body appends it to the buffer; a buffer of BATCH_SIZE works is     *)
(* filtered by process_works_batch and either fetched or dropped.          *)
(***************************************************************************)
YieldWork ==
    /\ pc = "yield"
    /\ pageData # << >>
    /\ LET work == Head(pageData)
           rest == Tail(pageData)
           buf  == Append(works_buffer, work)
           ids  == process_works_batch(buf, scraped_ids)
       IN
       /\ pageData' = rest
       /\ yielded' = Append(yielded, work)
       /\ IF BufferFull(buf)
          THEN /\ skipped' = skipped \cup (Range(buf) \cap Range(scraped_ids))
               /\ IF NeedsFetch(ids)
                  THEN /\ works_buffer' = buf
                       /\ ids_to_fetch' = ids
                       /\ pc' = "fetch"
                       /\ search_after' = search_after
                       /\ slept' = slept
                  ELSE /\ works_buffer' = << >>
                       /\ ids_to_fetch' = ids
                       /\ pc' = ResumePc(rest, next_cursor)
                       /\ search_after' = ResumeCursor(rest, next_cursor, search_after)
                       /\ slept' = TRUE
          ELSE /\ works_buffer' = buf
               /\ ids_to_fetch' = ids_to_fetch
               /\ pc' = ResumePc(rest, next_cursor)
               /\ search_after' = ResumeCursor(rest, next_cursor, search_after)
               /\ UNCHANGED << skipped, slept >>
    /\ UNCHANGED << env, disk, next_cursor, scraped_ids, full_works, phase >>
    /\ UNCHANGED << hist, sinceFlush, tailCalls, run, outcome, faults, interrupted >>
    /\ UNCHANGED << client, authors >>

(***************************************************************************)
(* Lines 226-229: after the loop, the works left in the buffer.            *)
(***************************************************************************)
\* variant: the works left in the buffer are not processed
DrainTail_Skip ==
    /\ pc = "tail"
    /\ phase' = "tail"
    /\ pc' = "flush"
    /\ UNCHANGED << env, disk, gen, scraped_ids, works_buffer, ids_to_fetch, full_works >>
    /\ UNCHANGED << hist, obs, run, outcome, faults, interrupted >>
    /\ UNCHANGED << client, authors >>

DrainTail ==
    /\ pc = "tail"
    /\ phase' = "tail"
    /\ skipped' = skipped \cup (Range(works_buffer) \cap Range(scraped_ids))
    /\ LET ids == process_works_batch(works_buffer, scraped_ids) IN
       IF works_buffer # << >> /\ NeedsFetch(ids)
       THEN /\ ids_to_fetch' = ids
            /\ pc' = "fetch"
       ELSE /\ ids_to_fetch' = ids_to_fetch
            /\ pc' = "flush"
    /\ UNCHANGED << env, disk, gen, scraped_ids, works_buffer, full_works >>
    /\ UNCHANGED << hist, sinceFlush, yielded, slept, tailCalls >>
    /\ UNCHANGED << run, outcome, faults, interrupted >>
    /\ UNCHANGED << client, authors >>

(***************************************************************************)
(* Lines 201-203, 217-224 (main loop) and 230-231, 237-238 (tail): the     *)
(* call of get_texts_batch.  An exception is logged; the main loop clears  *)
(* the buffer, sleeps and goes on, the tail goes to the final flush.       *)
(***************************************************************************)
GetTextsBatch ==
    /\ pc = "fetch"
    /\ requests' = Append(requests, ids_to_fetch)
    /\ \/ /\ NoFault
          /\ full_works' = BatchResponse(ids_to_fetch)
          /\ pc' = "persist"
          /\ slept' = FALSE
          /\ UNCHANGED << works_buffer, search_after, failedIds, scraped_ids >>
       \/ /\ Fault("extra_record")
          /\ \E extra \in ExtraIds :
                full_works' = Append(BatchResponse(ids_to_fetch), extra)
          /\ pc' = "persist"
          /\ slept' = FALSE
          /\ UNCHANGED << works_buffer, search_after, failedIds, scraped_ids >>
       \/ /\ Fault("batch_fail")
          /\ full_works' = << >>
          /\ scraped_ids' = ScrapedAfterBatchError(scraped_ids, ids_to_fetch)
          /\ failedIds' = failedIds \cup Range(ids_to_fetch)
          /\ pc' = BatchErrorPc(phase, pageData, next_cursor)
          /\ IF phase = "main"
             THEN /\ works_buffer' = << >>
                  /\ search_after' = ResumeCursor(pageData, next_cursor, search_after)
                  /\ slept' = TRUE
             ELSE /\ slept' = FALSE
                  /\ UNCHANGED << works_buffer, search_after >>
    /\ UNCHANGED << env, disk, pageData, next_cursor, ids_to_fetch, phase >>
    /\ UNCHANGED << searches, atPageFail, progAtStart, flushed, prev >>
    /\ tailCalls' = IF phase = "tail" THEN tailCalls + 1 ELSE tailCalls
    /\ UNCHANGED << sinceFlush, yielded, skipped >>
    /\ UNCHANGED << run, outcome, interrupted >>
    /\ UNCHANGED << client, authors >>

(***************************************************************************)
(* save_work, lines 138-148: open(work_file, 'w') truncates the file and   *)
(* json.dump writes it.  An exception of either is logged and swallowed.   *)
(***************************************************************************)
\* variant: nothing is written
save_work_NoWrite(work, how) == files

save_work(work, how) ==
    IF work = 0 THEN files
    ELSE IF how = "ok" THEN [files EXCEPT ![work] = "complete"]
    ELSE IF how = "open_fail" THEN files
    ELSE [files EXCEPT ![work] = "partial"]

\* variant: the requested id at the record's position is marked instead of
\* the id of the record
MarkDone_ByPosition(work) ==
    LET k == Len(ids_to_fetch) - Len(full_works) + 1 IN
    IF k \in 1..Len(ids_to_fetch) THEN Append(scraped_ids, ids_to_fetch[k])
    ELSE scraped_ids

\* lines 208-210: the id of a saved record is appended to scraped_ids
MarkDone(work) == IF work # 0 THEN Append(scraped_ids, work) ELSE scraped_ids

(***************************************************************************)
(* Lines 206-210 and 232-236: one iteration of 'for full_work in           *)
(* full_works'.  A KeyboardInterrupt inside json.dump, or after save_work  *)
(* returned, leaves the loop for the handler of line 240.                  *)
(***************************************************************************)
PersistWork ==
    /\ pc = "persist"
    /\ full_works # << >>
    /\ LET work == Head(full_works) IN
       \/ /\ NoFault
          /\ files' = save_work(work, "ok")
          /\ scraped_ids' = MarkDone(work)
          /\ sinceFlush' = sinceFlush + Len(scraped_ids') - Len(scraped_ids)
          /\ full_works' = Tail(full_works)
          /\ UNCHANGED << pc, interrupted >>
       \/ /\ work # 0
          /\ \E how \in {"open_fail", "dump_fail"} :
                /\ Fault(how)
                /\ files' = save_work(work, how)
          /\ scraped_ids' = MarkDone(work)
          /\ sinceFlush' = sinceFlush + Len(scraped_ids') - Len(scraped_ids)
          /\ full_works' = Tail(full_works)
          /\ UNCHANGED << pc, interrupted >>
       \/ /\ work # 0
          /\ \E how \in {"dump_interrupt", "ok"} :
                /\ Fault(IF how = "ok" THEN "interrupt_saved" ELSE "interrupt_save")
                /\ files' = save_work(work, how)
          /\ pc' = "flush"
          /\ interrupted' = TRUE
          /\ UNCHANGED << scraped_ids, full_works, sinceFlush >>
    /\ UNCHANGED << env, progress, gen, works_buffer, ids_to_fetch, phase >>
    /\ UNCHANGED << yielded, skipped, slept, tailCalls >>
    /\ UNCHANGED << requests, searches, atPageFail, failedIds, progAtStart, flushed, prev >>
    /\ UNCHANGED << run, outcome >>
    /\ UNCHANGED << client, authors >>

(***************************************************************************)
(* Writing progress.json: open(progress_file, 'w') and json.dump.          *)
(***************************************************************************)
WriteProgress(how) ==
    IF how = "ok" THEN [st |-> "ok", ids |-> scraped_ids]
    ELSE IF how = "open_fail" THEN progress
    ELSE [st |-> "corrupt", ids |-> << >>]

(***************************************************************************)
(* Lines 212-224 (main loop): after the last record of the batch the       *)
(* progress file is rewritten when len(scraped_ids) is a multiple of       *)
(* 2 * BATCH_SIZE; a failure of the write is caught by line 217.  Then the *)
(* buffer is cleared and the loop sleeps and goes on.  In the tail         *)
(* (lines 232-238) the end of the batch leads to the final flush.          *)
(***************************************************************************)
EndBatch ==
    /\ pc = "persist"
    /\ full_works = << >>
    /\ IF phase = "main"
       THEN /\ IF Len(scraped_ids) % (BATCH_SIZE * 2) = 0
               THEN \/ /\ NoFault
                       /\ progress' = WriteProgress("ok")
                       /\ sinceFlush' = 0
                    \/ \E how \in {"open_fail", "dump_fail"} :
                          /\ Fault("progress_" \o how)
                          /\ progress' = WriteProgress(how)
                          /\ sinceFlush' = sinceFlush
               ELSE /\ NoFault
                    /\ progress' = progress
                    /\ sinceFlush' = sinceFlush
            /\ works_buffer' = << >>
            /\ pc' = ResumePc(pageData, next_cursor)
            /\ search_after' = ResumeCursor(pageData, next_cursor, search_after)
            /\ slept' = TRUE
       ELSE /\ NoFault
            /\ pc' = "flush"
            /\ UNCHANGED << progress, works_buffer, search_after, sinceFlush, slept >>
    /\ UNCHANGED << env, files, pageData, next_cursor, scraped_ids, ids_to_fetch,
                    full_works, phase, yielded, skipped, tailCalls >>
    /\ UNCHANGED << requests, searches, atPageFail, failedIds, progAtStart, flushed, prev >>
    /\ UNCHANGED << run, outcome, interrupted >>
    /\ UNCHANGED << client, authors >>

(***************************************************************************)
(* Lines 240-241: a KeyboardInterrupt raised anywhere inside the try block *)
(* (between two statements, or inside a network call) is caught and leads  *)
(* to the finally clause.                                                  *)
(***************************************************************************)
InTry == {"search", "yield", "tail", "fetch", "persist"}

KeyboardInterrupt ==
    /\ pc \in InTry
    /\ Fault("interrupt")
    /\ interrupted' = TRUE
    /\ pc' = "flush"
    /\ UNCHANGED << env, disk, gen, loc, run, outcome >>
    /\ UNCHANGED << requests, searches, atPageFail, failedIds, progAtStart, flushed, prev >>
    /\ UNCHANGED obs
    /\ UNCHANGED << client, authors >>

(***************************************************************************)
(* Lines 242-247: the finally clause rewrites progress.json with the whole *)
(* list.  A failure of this write propagates out of scrape_all_works.      *)
(***************************************************************************)
FinalFlush ==
    /\ pc = "flush"
    /\ flushed' = TRUE
    /\ \/ /\ NoFault
          /\ progress' = WriteProgress("ok")
          /\ sinceFlush' = 0
          /\ outcome' = IF interrupted THEN "interrupted" ELSE "completed"
       \/ \E how \in {"open_fail", "dump_fail"} :
             /\ Fault("flush_" \o how)
             /\ progress' = WriteProgress(how)
             /\ sinceFlush' = sinceFlush
             /\ outcome' = "error"
    /\ pc' = "done"
    /\ UNCHANGED << yielded, skipped, slept, tailCalls >>
    /\ UNCHANGED << env, files, gen, loc, run, interrupted >>
    /\ UNCHANGED << requests, searches, atPageFail, failedIds, progAtStart, prev >>
    /\ UNCHANGED << client, authors >>

(***************************************************************************)
(* The scraper is started again in the same output directory (main(),      *)
(* lines 249-263): a new invocation of scrape_all_works with fresh locals. *)
(***************************************************************************)
NextRun ==
    /\ pc = "done"
    /\ run < MaxRuns
    /\ run' = run + 1
    /\ pc' = "start"
    /\ outcome' = "running"
    /\ interrupted' = FALSE
    /\ prev' = [outcome |-> outcome, events |-> events,
                chk |-> ProgressIds(progress), persisted |-> Persisted,
                failed |-> failedIds]
    /\ scraped_ids' = << >>
    /\ works_buffer' = << >>
    /\ ids_to_fetch' = << >>
    /\ full_works' = << >>
    /\ phase' = "main"
    /\ search_after' = 0
    /\ pageData' = << >>
    /\ next_cursor' = 0
    /\ requests' = << >>
    /\ searches' = << >>
    /\ events' = {}
    /\ atPageFail' = NoPageFail
    /\ failedIds' = {}
    /\ progAtStart' = {}
    /\ flushed' = FALSE
    /\ sinceFlush' = 0
    /\ yielded' = << >>
    /\ skipped' = {}
    /\ slept' = FALSE
    /\ tailCalls' = 0
    /\ UNCHANGED << env, disk, faults >>
    /\ UNCHANGED << client, authors >>

Next ==
    \/ GetTotalWorksCount
    \/ LoadProgress
    \/ SearchPage
    \/ YieldWork
    \/ DrainTail
    \/ GetTextsBatch
    \/ PersistWork
    \/ EndBatch
    \/ KeyboardInterrupt
    \/ FinalFlush
    \/ NextRun

Spec == Init /\ [][Next]_vars

(***************************************************************************)
(* The two client classes used directly: __init__ of BenYehudaAPI and of   *)
(* BenYehudaAuthorScraper (the same statements in both), and the request   *)
(* methods get_texts_batch and get_author called on the constructed        *)
(* object.                                                                 *)
(***************************************************************************)
Classes == {"BenYehudaAPI", "BenYehudaAuthorScraper"}

\* a key is None ("none"), the empty string ("empty") or a usable key
KeyValues == {"none", "empty", "key"}

Truthy(k) == k = "key"

\* load_dotenv() and os.getenv: a variable of the process environment is
\* not overridden by the .env file
Getenv(envk, dotenvk) == IF envk # "none" THEN envk ELSE dotenvk

\* self.api_key = api_key or os.getenv('BENYEHUDA_API_KEY')
ResolveKey(arg, envk, dotenvk) ==
    IF Truthy(arg) THEN arg ELSE Getenv(envk, dotenvk)

\* variant: the directory is made before the key is checked
DirMade_First(key) == TRUE

\* 'if not self.api_key: raise ValueError' comes before mkdir
DirMade(key) == Truthy(key)

Construct ==
    /\ built = "no"
    /\ LET key == ResolveKey(argKey, envKey, dotenvKey) IN
       /\ api_key' = key
       /\ built' = IF Truthy(key) THEN "yes" ELSE "ValueError"
       /\ outDir' = (outDir \/ DirMade(key))
    /\ UNCHANGED << cls, argKey, envKey, dotenvKey, wire, calls >>
    /\ UNCHANGED << scraper, authors >>

IdList(n) == [i \in 1..n |-> i]

\* lengths of the lists handed to get_texts_batch: empty, one id, a full
\* batch, one more than a full batch
BatchSizes == {0, 1, BATCH_SIZE, BATCH_SIZE + 1}

\* get_texts_batch: the payload carries text_ids as given and is posted
BatchRequest(text_ids) == [endpoint |-> "texts/batch", ids |-> text_ids]

\* get_author: GET /authorities/<author_id>
AuthorRequest(author_id) == [endpoint |-> "authorities", ids |-> << author_id >>]

\* response.raise_for_status() raises HTTPError, response.json() returns
CallResults == {"ok", "HTTPError"}

CallGetTextsBatch ==
    /\ built = "yes"
    /\ cls = "BenYehudaAPI"
    /\ Len(calls) < MaxCalls
    /\ \E n \in BatchSizes, result \in CallResults :
          /\ wire' = Append(wire, BatchRequest(IdList(n)))
          /\ calls' = Append(calls, [ids |-> IdList(n), sent |-> TRUE,
                                     result |-> result])
    /\ UNCHANGED << cls, argKey, envKey, dotenvKey, api_key, built, outDir >>
    /\ UNCHANGED << scraper, authors >>

CallGetAuthor ==
    /\ built = "yes"
    /\ cls = "BenYehudaAuthorScraper"
    /\ Len(calls) < MaxCalls
    /\ \E author_id \in {1, 2}, result \in CallResults :
          /\ wire' = Append(wire, AuthorRequest(author_id))
          /\ calls' = Append(calls, [ids |-> << author_id >>, sent |-> TRUE,
                                     result |-> result])
    /\ UNCHANGED << cls, argKey, envKey, dotenvKey, api_key, built, outDir >>
    /\ UNCHANGED << scraper, authors >>

InitClient ==
    /\ WorksStart(CatE2E, {}, NoWorkFiles, NoProgress)
    /\ AuthorsIdle
    /\ cls \in Classes
    /\ argKey \in KeyValues
    /\ envKey \in KeyValues
    /\ dotenvKey \in {"none", "key"}
    /\ api_key = "none"
    /\ built = "no"
    /\ outDir = FALSE
    /\ wire = << >>
    /\ calls = << >>

NextClient ==
    \/ Construct
    \/ CallGetTextsBatch
    \/ CallGetAuthor

SpecClient == InitClient /\ [][NextClient]_vars

(***************************************************************************)
(* BenYehudaAuthorScraper.scrape_all_authors (src/scraper/                 *)
(* author_scraper.py): the author ids are collected from the work files,   *)
(* each author not in authors_progress.json is fetched with get_author and *)
(* saved with save_author.  An author record is represented by its 'id';   *)
(* 0 stands for a record without id.                                       *)
(***************************************************************************)
\* a work file names the authors of the work; here two works per author
AuthorIdsOf(work) == {(work + 1) \div 2}

\* collect_author_ids: the author ids of the work files json.load can
\* decode; a file that cannot be decoded is logged and passed over
collect_author_ids == UNION { AuthorIdsOf(w) : w \in Persisted }

RECURSIVE Ascending(_)
Ascending(S) ==
    IF S = {} THEN << >>
    ELSE LET m == CHOOSE x \in S : \A y \in S : x <= y
         IN << m >> \o Ascending(S \ {m})

Reverse(s) == [i \in 1..Len(s) |-> s[Len(s) + 1 - i]]

\* orders in which the loop of line 132 may go through the set author_ids
IterationOrders(S) == {Ascending(S), Reverse(Ascending(S))}

\* the id in a response of get_author that is not the one asked for
OtherAuthor == NAuth + 1

AuthorProgressIds(p) == IF p.st = "ok" THEN p.ids ELSE {}

\* save_author: a response without id is passed over; otherwise
\* author_<id>.json is opened for writing (truncated) and dumped; an
\* exception of either is logged and swallowed
save_author(author, how) ==
    IF author = 0 THEN author_files
    ELSE IF how = "ok" THEN [author_files EXCEPT ![author] = "complete"]
    ELSE IF how = "open_fail" THEN author_files
    ELSE [author_files EXCEPT ![author] = "partial"]

AuthorFault == aFaults < MaxFaults /\ aFaults' = aFaults + 1

NoAuthorFault == aFaults' = aFaults

\* lines 114-116
CollectAuthorIds ==
    /\ apc = "collect"
    /\ author_ids' \in IterationOrders(collect_author_ids)
    /\ apc' = "load"
    /\ UNCHANGED << author_files, authors_progress, scraped_authors, author_data,
                    aFaults, aLog >>
    /\ UNCHANGED << scraper, client >>

\* lines 119-129: scraped_ids = set(json.load(f)); a failed load is logged
\* and leaves the set empty
LoadAuthorsProgress ==
    /\ apc = "load"
    /\ scraped_authors' = AuthorProgressIds(authors_progress)
    /\ apc' = "loop"
    /\ UNCHANGED << author_files, authors_progress, author_ids, author_data,
                    aFaults, aLog >>
    /\ UNCHANGED << scraper, client >>

\* lines 132-139 and 148-150: the next author id; an id in scraped_ids is
\* passed over; get_author returns the record of the author, or (upstream
\* anomalies) a record without id or with another id, or raises, and then
\* the handler logs and continues with the next id
GetAuthor ==
    /\ apc = "loop"
    /\ author_ids # << >>
    /\ LET author_id == Head(author_ids) IN
       IF author_id \in scraped_authors
       THEN /\ author_ids' = Tail(author_ids)
            /\ UNCHANGED << apc, author_data, aFaults, aLog >>
       ELSE /\ aLog' = Append(aLog, "get_author")
            /\ \/ /\ NoAuthorFault
                  /\ author_data' = author_id
                  /\ apc' = "save"
                  /\ author_ids' = author_ids
               \/ /\ AuthorFault
                  /\ author_data' \in {0, OtherAuthor}
                  /\ apc' = "save"
                  /\ author_ids' = author_ids
               \/ /\ AuthorFault
                  /\ author_data' = author_data
                  /\ apc' = "loop"
                  /\ author_ids' = Tail(author_ids)
    /\ UNCHANGED << author_files, authors_progress, scraped_authors >>
    /\ UNCHANGED << scraper, client >>

\* writing authors_progress.json: open(progress_file, 'w') and json.dump
WriteAuthorsProgress(ids, how) ==
    IF how = "ok" THEN [st |-> "ok", ids |-> ids]
    ELSE IF how = "open_fail" THEN authors_progress
    ELSE [st |-> "corrupt", ids |-> {}]

\* lines 140-141: save_author(author_data) and scraped_ids.add(author_id)
MarkAuthor(author_id) == scraped_authors \cup {author_id}

SaveAuthor ==
    /\ apc = "save"
    /\ \E how \in {"ok", "open_fail", "dump_fail"} :
          /\ IF how = "ok" THEN NoAuthorFault ELSE author_data # 0 /\ AuthorFault
          /\ author_files' = save_author(author_data, how)
          /\ scraped_authors' = MarkAuthor(Head(author_ids))
    /\ apc' = "check"
    /\ UNCHANGED << authors_progress, author_ids, author_data, aLog >>
    /\ UNCHANGED << scraper, client >>

\* lines 143-150: when the size of the set is a multiple of 10 the progress
\* file is rewritten; an exception of that write is caught by line 148,
\* which continues with the next id
CheckAuthorsProgress ==
    /\ apc = "check"
    /\ IF Cardinality(scraped_authors) % AuthorFlushEvery = 0
       THEN \/ /\ NoAuthorFault
               /\ authors_progress' = WriteAuthorsProgress(scraped_authors, "ok")
               /\ apc' = "sleep"
               /\ author_ids' = author_ids
            \/ /\ AuthorFault
               /\ \E how \in {"open_fail", "dump_fail"} :
                     authors_progress' = WriteAuthorsProgress(scraped_authors, how)
               /\ apc' = "loop"
               /\ author_ids' = Tail(author_ids)
       ELSE /\ NoAuthorFault
            /\ authors_progress' = authors_progress
            /\ apc' = "sleep"
            /\ author_ids' = author_ids
    /\ UNCHANGED << author_files, scraped_authors, author_data, aLog >>
    /\ UNCHANGED << scraper, client >>

\* line 153: time.sleep(0.5), then the next id
AuthorSleep ==
    /\ apc = "sleep"
    /\ aLog' = Append(aLog, "sleep")
    /\ author_ids' = Tail(author_ids)
    /\ apc' = "loop"
    /\ UNCHANGED << author_files, authors_progress, scraped_authors, author_data,
                    aFaults >>
    /\ UNCHANGED << scraper, client >>

\* lines 155-156: KeyboardInterrupt inside the try block
AuthorsInterrupt ==
    /\ apc \in {"loop", "save", "check", "sleep"}
    /\ AuthorFault
    /\ apc' = "flush"
    /\ UNCHANGED << author_files, authors_progress, scraped_authors, author_ids,
                    author_data, aLog >>
    /\ UNCHANGED << scraper, client >>

\* lines 157-162: the finally clause rewrites authors_progress.json; a
\* failure of this write propagates out of scrape_all_authors
AuthorsFinalFlush ==
    /\ \/ apc = "flush"
       \/ apc = "loop" /\ author_ids = << >>
    /\ \/ /\ NoAuthorFault
          /\ authors_progress' = WriteAuthorsProgress(scraped_authors, "ok")
       \/ /\ AuthorFault
          /\ \E how \in {"open_fail", "dump_fail"} :
                authors_progress' = WriteAuthorsProgress(scraped_authors, how)
    /\ apc' = "done"
    /\ UNCHANGED << author_files, scraped_authors, author_ids, author_data, aLog >>
    /\ UNCHANGED << scraper, client >>

\* the work files an earlier scrape_all_works left: the first n works
\* complete and, with cut, the next one cut short
WorkFilesLeft(n, cut) ==
    [i \in Ids |-> IF i <= n THEN "complete"
                   ELSE IF i = n + 1 /\ cut THEN "partial" ELSE "absent"]

\* what an earlier scrape_all_authors left: the first n authors saved and
\* in authors_progress.json
AuthorsLeft(n) ==
    /\ author_files = [a \in AuthorIds |-> IF a <= n THEN "complete" ELSE "absent"]
    /\ authors_progress = IF n = 0 THEN [st |-> "absent", ids |-> {}]
                          ELSE [st |-> "ok", ids |-> 1..n]

InitAuthors ==
    /\ \E n \in {6, 2 * NAuth}, cut \in BOOLEAN :
          WorksStart(CatE2E, {}, WorkFilesLeft(n, cut), NoProgress)
    /\ ClientBuilt("BenYehudaAuthorScraper")
    /\ \E n \in {0, 2} : AuthorsLeft(n)
    /\ apc = "collect"
    /\ scraped_authors = {}
    /\ author_ids = << >>
    /\ author_data = 0
    /\ aFaults = 0
    /\ aLog = << >>

NextAuthors ==
    \/ CollectAuthorIds
    \/ LoadAuthorsProgress
    \/ GetAuthor
    \/ SaveAuthor
    \/ CheckAuthorsProgress
    \/ AuthorSleep
    \/ AuthorsInterrupt
    \/ AuthorsFinalFlush

SpecAuthors == InitAuthors /\ [][NextAuthors]_vars

(***************************************************************************)
(* Properties.                                                             *)
(***************************************************************************)
\* ids sent to get_texts_batch in this run
Requested == UNION { Range(requests[k]) : k \in 1..Len(requests) }

\* the page at which a pagination without failure ends: the first page
\* with empty data or without next_page_search_after
LastPage(cat) ==
    CHOOSE k \in 1..Len(cat) :
        /\ cat[k].data = << >> \/ ~cat[k].next
        /\ \A j \in 1..(k - 1) : cat[j].data # << >> /\ cat[j].next

FlushFailed == events \cap {"flush_open_fail", "flush_dump_fail"} # {}

\* C1: every id of the Checkpoint Set (scraped_ids in memory, the ids in
\* progress.json) has a completely written record file work_<id>.json, at
\* every state.
C1_CheckpointWithinRecordStore ==
    \A i \in Range(scraped_ids) \cup ProgressIds(progress) : files[i] = "complete"

\* C2: no id that progress.json held when a run started (the ids the
\* earlier run checkpointed) is sent to get_texts_batch in that run, and a
\* run that finds every catalogue id checkpointed calls get_texts_batch
\* not at all.
C2_IdempotentReharvest ==
    /\ Requested \cap progAtStart = {}
    /\ CatalogueIds(catalogue) \subseteq progAtStart => requests = << >>

C2_Witness ==
    /\ run = 2 /\ pc = "done" /\ outcome = "completed"
    /\ catalogue = CatBig
    /\ progAtStart = CatalogueIds(catalogue)
    /\ requests = << >>

\* C3: when the first run was interrupted (KeyboardInterrupt, nothing else
\* failing) and the restarted run went through the whole catalogue, the
\* restarted run requested exactly the catalogue ids that the first run had
\* not persisted: none of the persisted ids again, none of the others left
\* out.
C3_CrashSafety ==
    ( /\ run = 2 /\ pc = "done"
      /\ prev.outcome = "interrupted" /\ prev.events = {"interrupt"}
      /\ outcome = "completed" /\ events = {} )
    => Requested = CatalogueIds(catalogue) \ prev.persisted

C3_Witness ==
    /\ run = 2 /\ pc = "done"
    /\ prev.outcome = "interrupted" /\ prev.events = {"interrupt"}
    /\ outcome = "completed" /\ events = {}
    /\ catalogue = CatBig /\ missing = {}
    /\ Cardinality(prev.persisted) = BATCH_SIZE
    /\ Len(requests) = 2

\* C4: every call of get_texts_batch, in the main loop and in the tail
\* pass, carries at least 1 and at most BATCH_SIZE ids.
C4_BatchSizeInvariant ==
    /\ \A k \in 1..Len(requests) : Len(requests[k]) \in 1..BATCH_SIZE
    /\ pc = "fetch" => Len(ids_to_fetch) \in 1..BATCH_SIZE

C4_Witness ==
    /\ Len(requests) = 3
    /\ Len(requests[1]) = BATCH_SIZE
    /\ phase = "tail"
    /\ Len(requests[3]) < BATCH_SIZE

\* C5: an id the batch endpoint leaves out of its responses is never in
\* the Checkpoint Set; a run in which nothing fails completes; and every
\* run that goes through the whole catalogue has each such catalogue id in
\* a list of ids to fetch.
C5_PartialBatchTolerance ==
    /\ missing \cap (Range(scraped_ids) \cup ProgressIds(progress)) = {}
    /\ (pc = "done" /\ events \subseteq {"load_fail"}) => outcome = "completed"
    /\ (pc = "done" /\ outcome = "completed" /\ "page_fail" \notin events)
         => (missing \cap CatalogueIds(catalogue)) \subseteq Requested

C5_Witness ==
    /\ run = 2 /\ pc = "done" /\ outcome = "completed"
    /\ catalogue = CatBig /\ missing = {4, NBig - 1}
    /\ prev.outcome = "completed"
    /\ requests = << << 4 >>, << NBig - 1 >> >>

\* C6: with two pages of three summaries (ids 1..6) and a batch endpoint
\* that has every record but 4, a full first run (nothing failing) ends
\* with record files for exactly {1,2,3,5,6} and the Checkpoint Set
\* {1,2,3,5,6}, and a full second run makes one request, for id 4 alone.
C6_EndToEnd ==
    (catalogue = CatE2E /\ missing = {4} /\ pc = "done" /\ events = {}) =>
        /\ run = 1 =>
             /\ Persisted = {1, 2, 3, 5, 6}
             /\ \A i \in Ids : files[i] # "partial"
             /\ Range(scraped_ids) = {1, 2, 3, 5, 6}
             /\ ProgressIds(progress) = {1, 2, 3, 5, 6}
        /\ (run = 2 /\ prev.events = {}) =>
             /\ requests = << << 4 >> >>
             /\ ProgressIds(progress) = {1, 2, 3, 5, 6}

C6_Witness ==
    /\ catalogue = CatE2E /\ missing = {4}
    /\ run = 2 /\ pc = "done" /\ events = {} /\ prev.events = {}
    /\ requests = << << 4 >> >>
    /\ Persisted = {1, 2, 3, 5, 6}

\* C7: each record file is absent or holds the complete content of one
\* fetched record, at every state.
C7_RecordFilesWhole ==
    \A i \in Ids : files[i] \in {"absent", "complete"}

C9_EveryStopFlushes ==
    pc = "done" => flushed /\ progress = [st |-> "ok", ids |-> scraped_ids]

\* C10: a run in which get_texts_batch failed (and nothing else) goes on
\* to search every page, persists and checkpoints every catalogue id that
\* the batch endpoint has and that is neither in a failed batch nor already
\* checkpointed, executes the final flush and completes, with the ids of
\* the failed batch outside the Checkpoint Set; and the next run that goes
\* through the whole catalogue requests those ids again.
C10_BatchFailureNotFatal ==
    /\ (pc = "done" /\ events = {"batch_fail"}) =>
          /\ outcome = "completed" /\ flushed
          /\ progress = [st |-> "ok", ids |-> scraped_ids]
          /\ Len(searches) = LastPage(catalogue)
          /\ (CatalogueIds(catalogue) \ (failedIds \cup missing \cup progAtStart))
                \subseteq (Persisted \cap Range(scraped_ids))
          /\ failedIds \cap Range(scraped_ids) = {}
    /\ ( /\ pc = "done" /\ outcome = "completed" /\ "page_fail" \notin events
         /\ prev.events = {"batch_fail"} )
         => prev.failed \subseteq Requested

C10_Witness ==
    /\ run = 2 /\ pc = "done" /\ outcome = "completed" /\ events = {}
    /\ prev.events = {"batch_fail"} /\ prev.outcome = "completed"
    /\ catalogue = CatBig /\ missing = {}
    /\ Cardinality(prev.failed) = BATCH_SIZE
    /\ Cardinality(prev.persisted) = NBig - BATCH_SIZE
    /\ requests = << [i \in 1..BATCH_SIZE |-> i] >>

\* C11: while a run is in progress, the number of ids appended to
\* scraped_ids since progress.json was last written never exceeds a fixed
\* N; N is the flush period of line 213, 2 * BATCH_SIZE.
C11_FlushAtBoundedIntervals ==
    pc \notin {"start", "done"} => sinceFlush <= 2 * BATCH_SIZE

\* C12: when a run has ended, however it ended, progress.json holds every
\* id it held before that run.
C12_PriorProgressIntact ==
    pc = "done" => prev.chk \subseteq ProgressIds(progress)

\* a list get_texts_batch must not be called with: empty or oversized
Malformed(text_ids) == text_ids = << >> \/ Len(text_ids) > BATCH_SIZE

\* C13: a call of get_texts_batch with an empty list or with more than
\* BATCH_SIZE ids fails with InvalidArgument and sends no request.
C13_MalformedBatchRejected ==
    \A k \in 1..Len(calls) :
        (cls = "BenYehudaAPI" /\ Malformed(calls[k].ids)) =>
            /\ calls[k].result = "InvalidArgument"
            /\ ~calls[k].sent

\* no api_key argument and no BENYEHUDA_API_KEY, in the process
\* environment or in .env
MissingCredential ==
    ~Truthy(argKey) /\ envKey = "none" /\ dotenvKey = "none"

\* C14: constructing either class with no usable api_key argument and no
\* BENYEHUDA_API_KEY in the environment or in .env raises ValueError, with
\* the output directory not created and no request sent.
C14_MissingCredentialFailsFirst ==
    (built # "no" /\ MissingCredential) =>
        /\ built = "ValueError"
        /\ ~outDir
        /\ wire = << >>

C14_Witness ==
    /\ cls = "BenYehudaAuthorScraper"
    /\ argKey = "none" /\ envKey = "none" /\ dotenvKey = "none"
    /\ built = "ValueError"

\* the items of the first n pages of the catalogue, in order
RECURSIVE PagesData(_)
PagesData(n) == IF n = 0 THEN << >> ELSE PagesData(n - 1) \o catalogue[n].data

\* search requests of this run that returned a page
SearchesAnswered ==
    IF atPageFail.searches >= 0 THEN Len(searches) - 1 ELSE Len(searches)

\* C15: get_all_works sends its first search without cursor and every
\* later one with the next_page_search_after of the response before it,
\* and none after a response with empty data or without that cursor; the
\* works yielded are the items of the pages fetched, in order; and a
\* pagination that neither fails nor is interrupted yields every item of
\* every page up to and including the first page without a next cursor,
\* and nothing from a page with empty data.
C15_PaginationOrder ==
    /\ searches # << >> => searches[1] = 0
    /\ \A k \in 2..Len(searches) :
          LET results == SearchResponse(searches[k - 1]) IN
          /\ results.data # << >>
          /\ results.next # 0
          /\ searches[k] = results.next
    /\ yielded \o pageData = PagesData(SearchesAnswered)
    /\ (pc = "done" /\ flushed /\ ~interrupted /\ "page_fail" \notin events) =>
          /\ Len(searches) = LastPage(catalogue)
          /\ yielded = PagesData(LastPage(catalogue))

C15_Witness ==
    /\ catalogue = CatOdd
    /\ pc = "done" /\ events = {}
    /\ searches = << 0, 1, 2 >>
    /\ yielded = << 1, 0, 2, 2, 3 >>

\* C16: every id the generator yielded is, at every state, in a
\* get_texts_batch request of this run, or was found in scraped_ids when
\* its buffer was processed, or is still in the buffer; and when a run
\* that was not interrupted has ended, every id yielded is in a request or
\* was found in scraped_ids when its buffer was processed, each request
\* but the last coming from a buffer of BATCH_SIZE works.
C16_NoSummaryDropped ==
    /\ (Range(yielded) \ {0}) \subseteq
          (Requested \cup skipped \cup Range(works_buffer))
    /\ (pc = "done" /\ flushed /\ ~interrupted) =>
          (Range(yielded) \ {0}) \subseteq (Requested \cup skipped)
    /\ phase = "main" => Len(requests) <= Len(yielded) \div BATCH_SIZE

C16_Witness ==
    /\ catalogue = CatBig /\ missing = {}
    /\ run = 2 /\ pc = "done" /\ flushed /\ ~interrupted /\ events = {}
    /\ Range(yielded) = CatalogueIds(catalogue)
    /\ skipped = prev.chk
    /\ Cardinality(skipped) = BATCH_SIZE
    /\ Len(requests) = 2
    /\ Len(requests[2]) = NBig - 2 * BATCH_SIZE

\* C17: in every step, a record file is written and an id is appended to
\* scraped_ids after a get_texts_batch call only for an id that was in the
\* list sent in that call.
C17_OnlyRequestedPersisted ==
    [][\A i \in Ids :
          ( \/ files'[i] # files[i]
            \/ /\ pc = "persist"
               /\ i \in Range(scraped_ids') \ Range(scraped_ids) )
          => i \in Range(requests[Len(requests)])]_vars

\* a step in which get_texts_batch is called and raises
BatchFailedStep ==
    /\ pc = "fetch"
    /\ Len(requests') = Len(requests) + 1
    /\ pc' # "persist"

\* C18: a step in which get_texts_batch fails leaves scraped_ids,
\* progress.json and every record file as they were.
C18_FailedBatchLeavesState ==
    [][BatchFailedStep => UNCHANGED << scraped_ids, progress, files >>]_vars

C18_Witness ==
    /\ catalogue = CatBig /\ missing = {}
    /\ run = 1 /\ events = {"batch_fail"}
    /\ Len(requests) = 2 /\ failedIds = Range(requests[2])
    /\ pc = "yield"
    /\ Cardinality(Persisted) = BATCH_SIZE
    /\ Range(scraped_ids) = Persisted
    /\ progress = NoProgress

\* C19: in scrape_all_authors, at every state, every author id in
\* scraped_ids or in authors_progress.json has a completely written
\* author_<id>.json.
C19_AuthorCheckpointWithinRecords ==
    \A a \in scraped_authors \cup AuthorProgressIds(authors_progress) :
        author_files[a] = "complete"

\* C20: in one run, between any two successive get_author calls (and, in
\* scrape_all_works, get_texts_batch calls) time.sleep(0.5) is executed.
C20_DelayBetweenFetches ==
    \A k \in 1..(Len(aLog) - 1) :
        ~(aLog[k] = "get_author" /\ aLog[k + 1] = "get_author")

\* the part of C20 about scrape_all_works: when get_texts_batch is about to
\* be called after an earlier call of the run, the sleep of line 224 was
\* executed since that call
DelayBetweenBatches ==
    (pc = "fetch" /\ requests # << >>) => slept

\* a list in which no id occurs twice
NoDuplicates(s) == Cardinality(Range(s)) = Len(s)

\* C22: the works checkpoint behaves as a set: no id occurs twice in the
\* list scraped_ids, nor in the list last written to progress.json, at any
\* point of any run, whatever the pages and the batch responses are (a
\* page or a response may repeat an id).
C22_CheckpointIsSet ==
    /\ NoDuplicates(scraped_ids)
    /\ progress.st = "ok" => NoDuplicates(progress.ids)

(***************************************************************************)
(* Termination of scrape_all_works: one invocation, started in an empty    *)
(* output directory or in one where an earlier invocation persisted and    *)
(* checkpointed the first BATCH_SIZE works of the catalogue.  The          *)
(* statements of scrape_all_works and of get_all_works are executed one    *)
(* after the other and each network call returns or raises, so a step of   *)
(* the run that can be taken is taken; a KeyboardInterrupt comes from      *)
(* outside and need not happen.                                            *)
(***************************************************************************)
Step ==
    \/ GetTotalWorksCount
    \/ LoadProgress
    \/ SearchPage
    \/ YieldWork
    \/ DrainTail
    \/ GetTextsBatch
    \/ PersistWork
    \/ EndBatch
    \/ FinalFlush

\* the ids the batch endpoint has among those of the first full buffer
FirstBatch(miss) == SelectSeq(IdList(BATCH_SIZE), LAMBDA id : id \notin miss)

\* a works directory holding the complete record files of ids
FilesOf(ids) == [i \in Ids |-> IF i \in ids THEN "complete" ELSE "absent"]

InitFair ==
    /\ \E cat \in Catalogues, miss \in MissingSets :
          \/ WorksStart(cat, miss, NoWorkFiles, NoProgress)
          \/ /\ Range(IdList(BATCH_SIZE)) \subseteq CatalogueIds(cat)
             /\ WorksStart(cat, miss, FilesOf(Range(FirstBatch(miss))),
                           [st |-> "ok", ids |-> FirstBatch(miss)])
    /\ ClientBuilt("BenYehudaAPI")
    /\ AuthorsIdle

NextFair == Step \/ KeyboardInterrupt

SpecFair == InitFair /\ [][NextFair]_vars /\ WF_vars(Step)

\* C21: with a search endpoint whose stream ends (a page with empty data or
\* without next_page_search_after) or fails, and network calls that return
\* or fail, a run of scrape_all_works that has got its total count leaves
\* pagination after at most one search request per page up to the page that
\* ends the stream, makes at most one get_texts_batch call in the tail block
\* and does not return to pagination after it, and reaches the end of
\* scrape_all_works with the final flush of lines 242-245 executed.
C21_Termination ==
    /\ [](Len(searches) <= LastPage(catalogue))
    /\ [](tailCalls <= 1)
    /\ [](phase = "tail" => pc \in {"fetch", "persist", "flush", "done"})
    /\ []((pc = "done" /\ searches # << >>) => flushed)
    /\ (pc \notin {"start", "done"}) ~> (pc = "done" /\ flushed)

C21_Witness ==
    /\ catalogue = CatBig /\ missing = {}
    /\ progAtStart = {} /\ events = {}
    /\ pc = "done" /\ flushed
    /\ Len(searches) = LastPage(catalogue)
    /\ Len(requests) = 3 /\ tailCalls = 1

=============================================================================
